---- MODULE Spec2Model ----
(***************************************************************************)
(* mldata: the Dataset class (mldata/dataset.py: constructor, hash,        *)
(* iteration, split iterators, apply), the name index                      *)
(* (mldata/utils/config.py) and the hash-addressed dataset store           *)
(* (mldata/dataset_store.py), as a state machine.                          *)
(*                                                                         *)
(* Arrays are sequences of rows, a row is a sequence of cells, a cell is   *)
(* one digit.  The md5 digest of a byte stream is written as the string of *)
(* the stream's digits: distinct streams have distinct digests, and the    *)
(* digest depends on nothing but the stream (hashlib.md5 is fed row after  *)
(* row, so it sees the concatenation of the rows only).                    *)
(*                                                                         *)
(* An optional value (target, a returned Dataset) is <<>> for None and     *)
(* <<v>> for the value v.                                                  *)
(*                                                                         *)
(* Dataset names are taken to be lower-case option keys, which             *)
(* configparser stores unchanged, and to hold no path separator, so that   *)
(* no dataset directory lies inside another.                               *)
(*                                                                         *)
(* A generator (Dataset.__iter__, Dataset._split_iterators) is its frame:  *)
(* the locals that survive a yield.  One next() is one step, from the      *)
(* yield the frame is suspended at to the next one.                        *)
(***************************************************************************)
EXTENDS Integers, Sequences, FiniteSets, TLC

VARIABLES
    config,   \* the [datasets] section of .smartrc: option name -> path
    fs,       \* the directories under .datasets: path -> (file name -> content)
    ret,      \* the last call: its arguments, its outcome, the last Dataset the caller got
    nops,     \* number of calls made so far that write the index or the disk
    dsets,        \* the Dataset objects the caller holds, in the order it built them
    results,      \* what the last method called on them returned, one per call
    itors,        \* the generators the caller holds: the frame of each
    pulled,       \* what next() returned from each generator so far, in order
    buffer_size,  \* the value of the module global dataset.BUFFER_SIZE
    metas         \* the Metadata objects Datasets refer to by position, where that matters

\* what the calls on Dataset objects use
dvars == <<dsets, results, itors, pulled, buffer_size, metas>>
vars == <<config, fs, ret, nops, dsets, results, itors, pulled, buffer_size, metas>>

(***************************** bounds *************************************)
\* Calls that write the index or the disk (save, add_dataset, remove) in one run.
MaxOps == 3
\* Rows of an array and entries of a splits tuple offered to the constructor alone.
MaxLen == 2
\* Rows of a Dataset that is iterated.
MaxRows == 3
\* Calls of next() on one generator.
MaxPulls == 4
\* Dataset objects the caller holds when Datasets share Metadata objects.
MaxObjects == 3

None == <<>>
Some(v) == <<v>>

(************************** helpers ***************************************)
RECURSIVE Sum(_)
\* Python's sum() of a tuple of ints
Sum(s) == IF s = <<>> THEN 0 ELSE Head(s) + Sum(Tail(s))

\* s[-1]
Last(s) == s[Len(s)]

RECURSIVE Flatten(_)
\* the byte stream hasher.update() receives from "for l in arr: update(np.array(l))"
Flatten(arr) == IF arr = <<>> THEN <<>> ELSE Head(arr) \o Flatten(Tail(arr))

Digit(c) == CASE c = 0 -> "0" [] c = 1 -> "1" [] c = 2 -> "2" [] c = 3 -> "3"
              [] c = 4 -> "4" [] c = 5 -> "5" [] c = 6 -> "6" [] c = 7 -> "7"
              [] c = 8 -> "8" [] c = 9 -> "9"

RECURSIVE hexdigest(_)
\* hashlib.md5 of the stream, taken to be collision free
hexdigest(stream) ==
    IF stream = <<>> THEN "h" ELSE hexdigest(SubSeq(stream, 1, Len(stream) - 1))
                                       \o Digit(stream[Len(stream)])

(*************************** dataset.py ***********************************)
\* BUFFER_SIZE as the module is imported
BUFFER_SIZE == 1000

\* Metadata(): the fields the store and the constructor read
Metadata(name, nb_examples, splits, hash) ==
    [name |-> name, nb_examples |-> nb_examples, splits |-> splits, hash |-> hash]

\* Dataset.__init__ without its first assertion
Dataset_init_NoCount(meta_data, data, target) ==
    IF meta_data.splits = <<>> THEN "IndexError"
    ELSE IF Len(data) # Last(meta_data.splits) /\ Len(data) # Sum(meta_data.splits)
         THEN "AssertionError"
    ELSE "ok"

\* Dataset.__init__ without its assertion on the splits
Dataset_init_NoSplits(meta_data, data, target) ==
    IF Len(data) # meta_data.nb_examples THEN "AssertionError"
    ELSE IF meta_data.splits = <<>> THEN "IndexError"
    ELSE "ok"

\* Dataset.__init__: the exception it raises, or "ok"
Dataset_init(meta_data, data, target) ==
    IF Len(data) # meta_data.nb_examples THEN "AssertionError"
    ELSE IF meta_data.splits = <<>> THEN "IndexError"
    ELSE IF Len(data) # Last(meta_data.splits) /\ Len(data) # Sum(meta_data.splits)
         THEN "AssertionError"
    ELSE "ok"

\* the object Dataset.__init__ leaves behind
Dataset(meta_data, data, target) ==
    [meta_data |-> meta_data, data |-> data, target |-> target]

\* Dataset.__len__
Dataset_len(d) == d.meta_data.nb_examples

\* Dataset.__hash__ that also feeds the splits of the metadata to the hasher
Dataset_hash_WithSplits(d) ==
    hexdigest(Flatten(d.data)
              \o (IF d.target # None THEN Flatten(d.target[1]) ELSE <<>>)
              \o d.meta_data.splits)

\* Dataset.__hash__ that returns the hash recorded in the metadata when there is one
Dataset_hash_Recorded(d) ==
    IF d.meta_data.hash # "" THEN d.meta_data.hash
    ELSE hexdigest(Flatten(d.data)
                   \o (IF d.target # None THEN Flatten(d.target[1]) ELSE <<>>))

\* Dataset.__hash__
Dataset_hash(d) ==
    hexdigest(Flatten(d.data)
              \o (IF d.target # None THEN Flatten(d.target[1]) ELSE <<>>))

(*************************** iteration ************************************)
Min(a, b) == IF a < b THEN a ELSE b

\* arr[i:j] for 0 <= i and 0 <= j
Slice(arr, i, j) == SubSeq(arr, i + 1, Min(j, Len(arr)))

\* x is a value of range(_, stop, step) once it has been reached by adding step
InRange(x, stop, step) == (step > 0 /\ x < stop) \/ (step < 0 /\ x > stop)

\* what one next() gives: the frame left behind, how it ended, the value yielded
Resume(frame, outcome, value) == [frame |-> frame, outcome |-> outcome, value |-> value]

\* iter(dataset): the generator object, its body not started
Dataset_iter(d) ==
    [kind |-> "__iter__", state |-> "created", start |-> 0, end |-> Len(d.data),
     minibatch_size |-> 1, buffer |-> 0, idx |-> 0, i |-> 0]

\* zip(self.data[idx:stop], self.target[idx:stop]), or self.data[idx:stop]
Dataset_iter_chunk(d, idx, stop) ==
    IF d.target # None
    THEN [k \in 1..Min(Len(Slice(d.data, idx, stop)), Len(Slice(d.target[1], idx, stop)))
            |-> <<Slice(d.data, idx, stop)[k], Slice(d.target[1], idx, stop)[k]>>]
    ELSE [k \in 1..Len(Slice(d.data, idx, stop)) |-> <<Slice(d.data, idx, stop)[k]>>]

RECURSIVE Dataset_iter_seek(_, _, _, _, _)
\* Dataset.__iter__ from the point where item i of the buffer at idx is due: the
\* next yield, or no yield at all when a whole turn of "while True" has none
Dataset_iter_seek(d, f, idx, i, turned) ==
    LET stop == Min(idx + f.buffer, Dataset_len(d))
        chunk == Dataset_iter_chunk(d, idx, stop)
    IN  IF i - idx < Len(chunk)
        THEN Resume([f EXCEPT !.state = "suspended", !.idx = idx, !.i = i],
                    "yield", chunk[i - idx + 1])
        ELSE IF InRange(idx + f.buffer, Len(d.data), f.buffer)
        THEN Dataset_iter_seek(d, f, idx + f.buffer, idx + f.buffer, turned)
        ELSE IF turned \/ ~InRange(0, Len(d.data), f.buffer)
        THEN Resume([f EXCEPT !.state = "running"], "never returns", None)
        ELSE Dataset_iter_seek(d, f, 0, 0, TRUE)

\* next() on a generator of Dataset.__iter__
Dataset_iter_next(d, f, BUFFER) ==
    LET buffer == Min(BUFFER, Dataset_len(d))
        g == [f EXCEPT !.buffer = buffer]
    IN  CASE f.state = "closed" -> Resume(f, "StopIteration", None)
          [] f.state = "created" /\ buffer = 0 ->
                Resume([g EXCEPT !.state = "closed"], "ValueError", None)
          [] f.state = "created" /\ buffer # 0 ->
                IF InRange(0, Len(d.data), buffer)
                THEN Dataset_iter_seek(d, g, 0, 0, FALSE)
                ELSE Resume([g EXCEPT !.state = "running"], "never returns", None)
          [] f.state = "suspended" -> Dataset_iter_seek(d, f, f.idx, f.i + 1, FALSE)

\* self._split_iterators(start, end, minibatch_size): the generator object
_split_iterators(start, end, minibatch_size) ==
    [kind |-> "_split_iterators", state |-> "created", start |-> start, end |-> end,
     minibatch_size |-> minibatch_size, buffer |-> 0, idx |-> 0, i |-> 0]

\* (self.data[i:j], self.target[i:j].reshape((1, -1))), or (self.data[i:j],)
_split_iterators_item(d, i, j) ==
    IF d.target # None
    THEN <<Slice(d.data, i, j), <<Flatten(Slice(d.target[1], i, j))>>>>
    ELSE <<Slice(d.data, i, j)>>

RECURSIVE _split_iterators_seek(_, _, _, _, _)
\* Dataset._split_iterators from the point where the minibatch at i of the buffer
\* at idx is due
_split_iterators_seek(d, f, idx, i, turned) ==
    LET stop == Min(idx + f.buffer, f.end)
    IN  IF i < stop
        THEN Resume([f EXCEPT !.state = "suspended", !.idx = idx, !.i = i], "yield",
                    _split_iterators_item(d, i, Min(stop, i + f.minibatch_size)))
        ELSE IF InRange(idx + f.buffer, f.end, f.buffer)
        THEN _split_iterators_seek(d, f, idx + f.buffer, idx + f.buffer, turned)
        ELSE IF turned \/ ~InRange(f.start, f.end, f.buffer)
        THEN Resume([f EXCEPT !.state = "running"], "never returns", None)
        ELSE _split_iterators_seek(d, f, f.start, f.start, TRUE)

\* next() on a generator of Dataset._split_iterators
_split_iterators_next(d, f, BUFFER) ==
    LET buffer == Min(BUFFER, f.end - f.start)
        g == [f EXCEPT !.buffer = buffer]
    IN  CASE f.state = "closed" -> Resume(f, "StopIteration", None)
          [] f.state = "created" /\ buffer = 0 ->
                Resume([g EXCEPT !.state = "closed"], "ValueError", None)
          [] f.state = "created" /\ buffer # 0 ->
                _split_iterators_seek(d, g, f.start, f.start, FALSE)
          [] f.state = "suspended" ->
                _split_iterators_seek(d, f, f.idx, f.i + f.minibatch_size, FALSE)

RECURSIVE accumulate(_)
\* itertools.accumulate: the running sums
accumulate(s) ==
    IF s = <<>> THEN <<>>
    ELSE LET front == accumulate(SubSeq(s, 1, Len(s) - 1))
         IN  Append(front, (IF front = <<>> THEN 0 ELSE Last(front)) + Last(s))

\* get_splits_iterators that takes the splits as offsets always
get_splits_iterators_sp_AsOffsets(d) == d.meta_data.splits

\* get_splits_iterators: sp, the normalized splits
get_splits_iterators_sp(d) ==
    IF Sum(d.meta_data.splits) = Dataset_len(d)
    THEN accumulate(d.meta_data.splits)
    ELSE d.meta_data.splits

\* get_splits_iterators: the exception it raises, or "ok"
get_splits_iterators_outcome(d) ==
    IF Last(get_splits_iterators_sp(d)) # Dataset_len(d) THEN "AssertionError" ELSE "ok"

\* get_splits_iterators: itors, one generator per (start, end) of zip([0] + sp, sp)
get_splits_iterators(d, minibatch_size) ==
    LET sp == get_splits_iterators_sp(d)
    IN  [k \in 1..Len(sp) |->
            _split_iterators((<<0>> \o sp)[k], sp[k], minibatch_size)]

\* a Metadata whose preprocess field is set: None or the function named
WithPreprocess(m, f) ==
    [name |-> m.name, nb_examples |-> m.nb_examples, splits |-> m.splits,
     hash |-> m.hash, preprocess |-> f]

\* arr * 2 of a numpy array
Times2(arr) == [r \in 1..Len(arr) |-> [c \in 1..Len(arr[r]) |-> 2 * arr[r][c]]]

\* what a call leaves: how it ended, the value returned, whether that value is a
\* Dataset, and the object it was called on as the call leaves it
Returned(outcome, value, isDataset, self) ==
    [outcome |-> outcome, value |-> value, isDataset |-> isDataset, self |-> self]

\* self.meta_data.preprocess(self) for the functions a Metadata is given:
\*   default_preprocess(dset): return dset
\*   double_dset(dset): return Dataset(dset.meta_data, dset.data * 2, dset.target * 2)
\*   get_data(dset): return dset.data
preprocess(dset) ==
    LET f == dset.meta_data.preprocess
    IN  CASE f = None -> Returned("TypeError", None, FALSE, dset)
          [] f = Some("default_preprocess") -> Returned("ok", dset, TRUE, dset)
          [] f = Some("double_dset") ->
                IF dset.target = None THEN Returned("TypeError", None, FALSE, dset)
                ELSE LET outcome == Dataset_init(dset.meta_data, Times2(dset.data),
                                                 Some(Times2(dset.target[1])))
                     IN  IF outcome # "ok" THEN Returned(outcome, None, FALSE, dset)
                         ELSE Returned("ok", Dataset(dset.meta_data, Times2(dset.data),
                                                     Some(Times2(dset.target[1]))),
                                       TRUE, dset)
          [] f = Some("get_data") -> Returned("ok", dset.data, FALSE, dset)

\* Dataset.apply that keeps the preprocessed arrays in the Dataset it is called on
apply_InPlace(self) ==
    LET ds == preprocess(self)
    IN  IF ds.outcome # "ok" THEN ds
        ELSE IF ~ds.isDataset THEN Returned("AssertionError", None, FALSE, ds.self)
        ELSE Returned("ok", ds.value, TRUE,
                      [ds.self EXCEPT !.data = ds.value.data, !.target = ds.value.target])

\* Dataset.apply
apply(self) ==
    LET ds == preprocess(self)
    IN  IF ds.outcome # "ok" THEN ds
        ELSE IF ~ds.isDataset THEN Returned("AssertionError", None, FALSE, ds.self)
        ELSE ds

\* the names class Dataset defines, and the attributes __init__ sets
Dataset_attributes ==
    { "__init__", "__len__", "__hash__", "__iter__", "__getitem__",
      "_split_iterators", "get_splits_iterators", "apply",
      "data", "target", "meta_data" }

\* dataset.<name>: found, or the AttributeError of the lookup
getattr_outcome(name) == IF name \in Dataset_attributes THEN "ok" ELSE "AttributeError"

(*************************** config.py ************************************)
DATASETS_DIR == ".datasets"

\* os.path.join
join(path, name) == path \o "/" \o name

\* _load_path
_load_path == DATASETS_DIR

\* dataset_exists
dataset_exists(cfg, dataset_name) == dataset_name \in DOMAIN cfg

\* os.path.isdir
isdir(disk, path) == path \in DOMAIN disk

\* os.listdir
listdir(disk, path) == DOMAIN disk[path]

\* add_dataset: the index and the disk it leaves
add_dataset_config(cfg, dataset_name) ==
    [n \in DOMAIN cfg \cup {dataset_name} |->
        IF n = dataset_name THEN join(_load_path, dataset_name) ELSE cfg[n]]

add_dataset_fs(disk, dataset_name) ==
    LET path == join(_load_path, dataset_name) IN
    IF ~isdir(disk, path)
    THEN [p \in DOMAIN disk \cup {path} |-> IF p = path THEN <<>> ELSE disk[p]]
    ELSE disk

\* remove_dataset that leaves the option in the index
remove_dataset_config_KeepOption(cfg, dataset_name) == cfg

\* remove_dataset: the index and the disk it leaves
remove_dataset_config(cfg, dataset_name) ==
    [n \in DOMAIN cfg \ {dataset_name} |-> cfg[n]]

\* remove_dataset that also deletes, in the other directories, the files whose
\* names the removed directory held
remove_dataset_fs_ByFileName(disk, dataset_name) ==
    LET path == join(_load_path, dataset_name) IN
    IF isdir(disk, path)
    THEN [p \in DOMAIN disk \ {path} |->
            [f \in DOMAIN disk[p] \ DOMAIN disk[path] |-> disk[p][f]]]
    ELSE disk

remove_dataset_fs(disk, dataset_name) ==
    LET path == join(_load_path, dataset_name) IN
    IF isdir(disk, path) THEN [p \in DOMAIN disk \ {path} |-> disk[p]] ELSE disk

\* get_dataset_path: the exception it raises, or "ok"
get_dataset_path_outcome(cfg, disk, dataset_name) ==
    IF ~isdir(disk, cfg[dataset_name]) THEN "KeyError" ELSE "ok"

get_dataset_path(cfg, dataset_name) == cfg[dataset_name]

(************************ dataset_store.py ********************************)
\* the name save gives the data file and the metadata file
DataFile(hash) == hash \o ".data"
MetaFile(dset_name, version_name) == dset_name \o "_" \o version_name \o ".meta"

\* a file written into a directory
WriteFile(disk, path, filename, content) ==
    [disk EXCEPT ![path] =
        [f \in DOMAIN disk[path] \cup {filename} |->
            IF f = filename THEN content ELSE disk[path][f]]]

\* _save_dataset that writes the data file whether or not it exists
_save_dataset_Overwrite(disk, dataset, path, filename) ==
    WriteFile(disk, path, filename,
              [data |-> dataset.data, targets |-> dataset.target])

\* _save_dataset that never writes the targets
_save_dataset_NoTargets(disk, dataset, path, filename) ==
    IF filename \notin listdir(disk, path)
    THEN WriteFile(disk, path, filename, [data |-> dataset.data, targets |-> None])
    ELSE disk

\* _save_dataset
_save_dataset(disk, dataset, path, filename) ==
    IF filename \notin listdir(disk, path)
    THEN WriteFile(disk, path, filename,
                   [data |-> dataset.data, targets |-> dataset.target])
    ELSE disk

\* _save_metadata
_save_metadata(disk, metadata, path, filename) ==
    IF filename \notin listdir(disk, path)
    THEN WriteFile(disk, path, filename, metadata)
    ELSE disk

\* _load_from_file that lets open()'s FileNotFoundError through
_load_from_file_outcome_NoCatch(disk, name, path) ==
    IF (name \o ".meta") \notin listdir(disk, path) THEN "FileNotFoundError"
    ELSE LET metadata == disk[path][name \o ".meta"]
             file_to_load == DataFile(metadata.hash)
         IN  IF file_to_load \notin listdir(disk, path) THEN "OSError"
             ELSE LET datasetFile == disk[path][file_to_load]
                  IN  Dataset_init(metadata, datasetFile.data, datasetFile.targets)

\* _load_from_file: the exception it raises, or "ok"
_load_from_file_outcome(disk, name, path) ==
    IF (name \o ".meta") \notin listdir(disk, path) THEN "LookupError"
    ELSE LET metadata == disk[path][name \o ".meta"]
             file_to_load == DataFile(metadata.hash)
         IN  IF file_to_load \notin listdir(disk, path) THEN "OSError"
             ELSE LET datasetFile == disk[path][file_to_load]
                  IN  Dataset_init(metadata, datasetFile.data, datasetFile.targets)

\* _load_from_file: the Dataset it returns when it raises nothing
_load_from_file(disk, name, path) ==
    LET metadata == disk[path][name \o ".meta"]
        datasetFile == disk[path][DataFile(metadata.hash)]
    IN  Dataset(metadata, datasetFile.data, datasetFile.targets)

\* load: the exception it raises, or "ok"
load_outcome(cfg, disk, dset_name, version_name) ==
    IF ~dataset_exists(cfg, dset_name) THEN "LookupError"
    ELSE IF get_dataset_path_outcome(cfg, disk, dset_name) # "ok" THEN "KeyError"
    ELSE _load_from_file_outcome(disk, dset_name \o "_" \o version_name,
                                 get_dataset_path(cfg, dset_name))

\* load: what the caller gets, None when it raises
load(cfg, disk, dset_name, version_name) ==
    IF load_outcome(cfg, disk, dset_name, version_name) = "ok"
    THEN Some(_load_from_file(disk, dset_name \o "_" \o version_name,
                              get_dataset_path(cfg, dset_name)))
    ELSE None

(***************************** inputs *************************************)
Names == {"a", "b"}
Versions == {"v1", "v2"}

\* the datasets the caller saves: every Dataset the constructor accepts over these
StoreData == { <<<<1>>>>, <<<<1>>, <<2>>>> }
StoreTargets == { None, Some(<<<<2>>>>) }
StoreSplits == { <<1>>, <<2>>, <<1, 1>> }
StoreMetadata ==
    { Metadata(n, k, s, "") : n \in Names, k \in 1..2, s \in StoreSplits }
StoreDatasets ==
    { x \in { Dataset(m, d, t) : m \in StoreMetadata, d \in StoreData,
                                  t \in StoreTargets } :
        Dataset_init(x.meta_data, x.data, x.target) = "ok" }

\* what the constructor alone is offered: arrays of 0..MaxLen rows of one cell
Rows(k) == [1..k -> {<<1>>}]
CtorData == UNION { Rows(k) : k \in 0..MaxLen }
CtorTargets == {None} \cup { Some(t) : t \in CtorData }
CtorSplits == UNION { [1..k -> 0..MaxLen] : k \in 0..MaxLen }
CtorMetadata ==
    { Metadata("a", k, s, "") : k \in 0..MaxLen, s \in CtorSplits }

Call(op, name, version, lazy, arg, outcome, dataset) ==
    [op |-> op, name |-> name, version |-> version, lazy |-> lazy,
     arg |-> arg, outcome |-> outcome, dataset |-> dataset]

(***************************** actions ************************************)
\* no Dataset object is held and no generator exists
NoObjects ==
    /\ dsets = <<>>
    /\ results = <<>>
    /\ itors = <<>>
    /\ pulled = <<>>
    /\ buffer_size = BUFFER_SIZE
    /\ metas = <<>>

Init ==
    /\ config = <<>>
    /\ fs = <<>>
    /\ ret = Call("init", "", "", FALSE, None, "ok", None)
    /\ nops = 0
    /\ NoObjects

\* Dataset(meta_data, data, target) on the arguments the caller has ready
NewDataset ==
    /\ ret.op = "args"
    /\ LET meta_data == ret.arg[1].meta_data
           data == ret.arg[1].data
           target == ret.arg[1].target
           outcome == Dataset_init(meta_data, data, target)
       IN  ret' = Call("Dataset", meta_data.name, "", FALSE, ret.arg, outcome,
                       IF outcome = "ok"
                       THEN Some(Dataset(meta_data, data, target))
                       ELSE None)
    /\ UNCHANGED <<config, fs, nops>>
    /\ UNCHANGED dvars

\* cfg.add_dataset(dataset_name)
AddDataset(dataset_name) ==
    /\ nops < MaxOps
    /\ nops' = nops + 1
    /\ config' = add_dataset_config(config, dataset_name)
    /\ fs' = add_dataset_fs(fs, dataset_name)
    /\ ret' = Call("add_dataset", dataset_name, "", FALSE, None, "ok", ret.dataset)
    /\ UNCHANGED dvars

\* remove(name)
Remove(name) ==
    /\ nops < MaxOps
    /\ nops' = nops + 1
    /\ config' = remove_dataset_config(config, name)
    /\ fs' = remove_dataset_fs(fs, name)
    /\ ret' = Call("remove", name, "", FALSE, None, "ok", ret.dataset)
    /\ UNCHANGED dvars

\* save(dataset, version_name); ret.dataset is the caller's dataset after the call
Save(dataset, version_name) ==
    /\ nops < MaxOps
    /\ nops' = nops + 1
    /\ LET dset_name == dataset.meta_data.name
           known == dataset_exists(config, dset_name)
           config1 == IF known THEN config ELSE add_dataset_config(config, dset_name)
           fs1 == IF known THEN fs ELSE add_dataset_fs(fs, dset_name)
       IN  IF get_dataset_path_outcome(config1, fs1, dset_name) # "ok"
           THEN /\ config' = config1
                /\ fs' = fs1
                /\ ret' = Call("save", dset_name, version_name, FALSE, Some(dataset),
                               get_dataset_path_outcome(config1, fs1, dset_name),
                               Some(dataset))
           ELSE LET dset_path == get_dataset_path(config1, dset_name)
                    dset_hash == Dataset_hash(dataset)
                    saved == [dataset EXCEPT !.meta_data.hash = dset_hash]
                    dset_file == DataFile(saved.meta_data.hash)
                    fs2 == _save_dataset(fs1, saved, dset_path, dset_file)
                    meta_file == MetaFile(dset_name, version_name)
                IN  /\ config' = config1
                    /\ fs' = _save_metadata(fs2, saved.meta_data, dset_path, meta_file)
                    /\ ret' = Call("save", dset_name, version_name, FALSE,
                                   Some(dataset), "ok", Some(saved))

\* load(dset_name, version_name, lazy): both drivers open the same file
Load(dset_name, version_name, lazy) ==
    /\ UNCHANGED <<config, fs, nops>>
    /\ UNCHANGED dvars
    /\ ret' = Call("load", dset_name, version_name, lazy, None,
                   load_outcome(config, fs, dset_name, version_name),
                   load(config, fs, dset_name, version_name))

DoAddDataset == \E n \in Names : AddDataset(n)
DoRemove == \E n \in Names : Remove(n)
DoSave == \E d \in StoreDatasets, v \in Versions : Save(d, v) /\ UNCHANGED dvars
DoLoad == \E n \in Names, v \in Versions, lazy \in BOOLEAN : Load(n, v, lazy)

Next == DoAddDataset \/ DoRemove \/ DoSave \/ DoLoad

\* the store: save, load, remove and add_dataset in any order
Spec == Init /\ [][Next]_vars

\* the caller has a Metadata, a data array and a target (or none) ready
InitDataset ==
    /\ config = <<>>
    /\ fs = <<>>
    /\ nops = 0
    /\ NoObjects
    /\ \E m \in CtorMetadata, d \in CtorData, t \in CtorTargets :
          ret = Call("args", m.name, "", FALSE, Some(Dataset(m, d, t)), "ok", None)

NextDataset == NewDataset

\* the constructor alone, on every input of the bounded sets
SpecDataset == InitDataset /\ [][NextDataset]_vars

(**************************** hashing *************************************)
\* the datasets the caller hashes: every Dataset the constructor accepts over these
HashData == { <<<<1>>>>, <<<<2>>>>, <<<<1>>, <<2>>>>, <<<<1, 2>>>> }
HashTargets == { None, Some(<<<<2>>>>), Some(<<<<1>>, <<2>>>>) }
HashMetadata ==
    { Metadata(n, k, s, h) : n \in Names, k \in 1..2, s \in StoreSplits,
                             h \in {"", "h1"} }
HashDatasets ==
    { x \in { Dataset(m, d, t) : m \in HashMetadata, d \in HashData,
                                  t \in HashTargets } :
        Dataset_init(x.meta_data, x.data, x.target) = "ok" }

\* the caller holds two Datasets
InitHash ==
    /\ config = <<>>
    /\ fs = <<>>
    /\ nops = 0
    /\ ret = Call("init", "", "", FALSE, None, "ok", None)
    /\ results = <<>>
    /\ itors = <<>>
    /\ pulled = <<>>
    /\ buffer_size = BUFFER_SIZE
    /\ metas = <<>>
    /\ \E d1 \in HashDatasets, d2 \in HashDatasets : dsets = <<d1, d2>>

\* d.__hash__() on each Dataset held
Hash ==
    /\ results = <<>>
    /\ results' = [k \in 1..Len(dsets) |-> Dataset_hash(dsets[k])]
    /\ UNCHANGED <<config, fs, ret, nops, dsets, itors, pulled, buffer_size, metas>>

NextHash == Hash

\* two Datasets and their hashes, on every pair of the bounded sets
SpecHash == InitHash /\ [][NextHash]_vars

(**************************** iterating ***********************************)
\* the Datasets the caller iterates: every Dataset the constructor accepts with
\* n distinct rows, a target row for each data row or no target, and one or two splits
IterData(n) == [r \in 1..n |-> <<r>>]
IterTargets(n) == { None, Some([r \in 1..n |-> <<r + 10>>]) }
IterSplits == [1..1 -> 0..MaxRows] \cup [1..2 -> 0..MaxRows]
IterDatasets ==
    { x \in UNION { { Dataset(Metadata("a", n, s, ""), IterData(n), t) :
                        s \in IterSplits, t \in IterTargets(n) } : n \in 0..MaxRows } :
        Dataset_init(x.meta_data, x.data, x.target) = "ok" }
\* values of dataset.BUFFER_SIZE: below, at and above the sizes of the splits
BufferSizes == {1, 2, BUFFER_SIZE}
MinibatchSizes == {1, 2}

\* the caller holds one Dataset and no generator yet
InitIter ==
    /\ config = <<>>
    /\ fs = <<>>
    /\ nops = 0
    /\ ret = Call("init", "", "", FALSE, None, "ok", None)
    /\ results = <<>>
    /\ itors = <<>>
    /\ pulled = <<>>
    /\ buffer_size \in BufferSizes
    /\ metas = <<>>
    /\ \E d \in IterDatasets : dsets = <<d>>

\* a next() that never returns leaves the caller inside it
Stuck == \E k \in 1..Len(itors) : itors[k].state = "running"

\* iter(dataset)
Iter ==
    /\ ~Stuck
    /\ \A k \in 1..Len(itors) : itors[k].kind # "__iter__"
    /\ itors' = Append(itors, Dataset_iter(dsets[1]))
    /\ pulled' = Append(pulled, <<>>)
    /\ UNCHANGED <<config, fs, ret, nops, dsets, results, buffer_size, metas>>

\* dataset.get_splits_iterators(minibatch_size)
GetSplitsIterators(minibatch_size) ==
    /\ ~Stuck
    /\ results = <<>>
    /\ LET outcome == get_splits_iterators_outcome(dsets[1])
           made == IF outcome = "ok"
                   THEN get_splits_iterators(dsets[1], minibatch_size)
                   ELSE <<>>
       IN  /\ results' = <<[op |-> "get_splits_iterators",
                            minibatch_size |-> minibatch_size, outcome |-> outcome,
                            first |-> Len(itors) + 1, count |-> Len(made)]>>
           /\ itors' = itors \o made
           /\ pulled' = pulled \o [k \in 1..Len(made) |-> <<>>]
    /\ UNCHANGED <<config, fs, ret, nops, dsets, buffer_size, metas>>

\* next(itors[k]) with the split generators of a Dataset running on one frame
Pull_OneFrame(k) ==
    /\ ~Stuck
    /\ Len(pulled[k]) < MaxPulls
    /\ LET r == IF itors[k].kind = "__iter__"
                THEN Dataset_iter_next(dsets[1], itors[k], buffer_size)
                ELSE _split_iterators_next(dsets[1], itors[k], buffer_size)
       IN  /\ itors' = [j \in 1..Len(itors) |->
                          IF j = k \/ itors[j].kind = itors[k].kind
                          THEN r.frame ELSE itors[j]]
           /\ pulled' = [pulled EXCEPT
                            ![k] = Append(@, [outcome |-> r.outcome, value |-> r.value])]
    /\ UNCHANGED <<config, fs, ret, nops, dsets, results, buffer_size, metas>>

\* next(itors[k])
Pull(k) ==
    /\ ~Stuck
    /\ Len(pulled[k]) < MaxPulls
    /\ LET r == IF itors[k].kind = "__iter__"
                THEN Dataset_iter_next(dsets[1], itors[k], buffer_size)
                ELSE _split_iterators_next(dsets[1], itors[k], buffer_size)
       IN  /\ itors' = [itors EXCEPT ![k] = r.frame]
           /\ pulled' = [pulled EXCEPT
                            ![k] = Append(@, [outcome |-> r.outcome, value |-> r.value])]
    /\ UNCHANGED <<config, fs, ret, nops, dsets, results, buffer_size, metas>>

DoGetSplitsIterators == \E mb \in MinibatchSizes : GetSplitsIterators(mb)
DoPull == \E k \in 1..Len(itors) : Pull(k)

NextIter == Iter \/ DoGetSplitsIterators \/ DoPull

\* one Dataset, its iterator and its split iterators pulled in any order
SpecIter == InitIter /\ [][NextIter]_vars

(**************************** applying ************************************)
\* the Datasets apply is called on: the Datasets that are hashed, with each
\* value of the preprocess field
Preprocesses ==
    { None, Some("default_preprocess"), Some("double_dset"), Some("get_data") }
ApplyDatasets ==
    { [d EXCEPT !.meta_data = WithPreprocess(d.meta_data, f)] :
        d \in HashDatasets, f \in Preprocesses }

\* the caller holds one Dataset
InitApply ==
    /\ config = <<>>
    /\ fs = <<>>
    /\ nops = 0
    /\ results = <<>>
    /\ itors = <<>>
    /\ pulled = <<>>
    /\ buffer_size = BUFFER_SIZE
    /\ metas = <<>>
    /\ \E d \in ApplyDatasets :
          /\ dsets = <<d>>
          /\ ret = Call("args", d.meta_data.name, "", FALSE, Some(d), "ok", None)

\* dataset.apply(); ret.arg keeps the Dataset as it was when the call was made
Apply ==
    /\ ret.op = "args"
    /\ LET r == apply(dsets[1])
       IN  /\ dsets' = <<r.self>>
           /\ ret' = Call("apply", ret.name, "", FALSE, ret.arg, r.outcome,
                          IF r.outcome = "ok" THEN Some(r.value) ELSE None)
           /\ results' = <<[isDataset |-> r.isDataset]>>
    /\ UNCHANGED <<config, fs, nops, itors, pulled, buffer_size, metas>>

\* dataset.get_splits(): class Dataset defines no get_splits, the call ends in the
\* lookup of the name
GetSplits ==
    /\ ret.op = "args"
    /\ ret' = Call("get_splits", ret.name, "", FALSE, ret.arg,
                   getattr_outcome("get_splits"), None)
    /\ UNCHANGED <<config, fs, nops, dsets, results, itors, pulled, buffer_size, metas>>

NextApply == Apply \/ GetSplits

\* apply, or get_splits, on every Dataset of the bounded sets
SpecApply == InitApply /\ [][NextApply]_vars

(**************************** sharing **************************************)
\* Dataset.__init__ keeps the Metadata it is given (self.meta_data = meta_data):
\* here a Dataset object holds the position of its Metadata object in metas
OwnerMetadata ==
    { WithPreprocess(Metadata(n, 1, <<1>>, ""), f) :
        n \in Names, f \in {Some("default_preprocess"), Some("double_dset")} }
OwnerData == { <<<<1>>>>, <<<<2>>>> }
OwnerTargets == { Some(<<<<2>>>>) }

\* the Dataset object o with its Metadata object in place of the reference
Deref(heap, o) == Dataset(heap[o.meta_data], o.data, o.target)

\* the caller has made one or two Metadata objects and two Datasets from them
InitOwner ==
    /\ config = <<>>
    /\ fs = <<>>
    /\ nops = 0
    /\ ret = Call("init", "", "", FALSE, None, "ok", None)
    /\ results = <<>>
    /\ itors = <<>>
    /\ pulled = <<>>
    /\ buffer_size = BUFFER_SIZE
    /\ metas \in [1..1 -> OwnerMetadata] \cup [1..2 -> OwnerMetadata]
    /\ dsets \in [1..2 -> { Dataset(a, d, t) : a \in 1..Len(metas), d \in OwnerData,
                                                t \in OwnerTargets }]
    /\ \A k \in 1..2 : Dataset_init(metas[dsets[k].meta_data], dsets[k].data,
                                    dsets[k].target) = "ok"

\* save(dsets[k], version_name): save assigns dataset.meta_data.hash, which is a
\* write to the Metadata object the Dataset refers to
SaveObject(k, version_name) ==
    /\ Save(Deref(metas, dsets[k]), version_name)
    /\ metas' = IF ret'.outcome = "ok"
                THEN [metas EXCEPT ![dsets[k].meta_data] = ret'.dataset[1].meta_data]
                ELSE metas
    /\ results' = <<[op |-> "save", self |-> k]>>
    /\ UNCHANGED <<dsets, itors, pulled, buffer_size>>

\* dsets[k].apply(): default_preprocess returns the Dataset it is given, double_dset
\* a new Dataset made with dset.meta_data, the Metadata object of the first
ApplyObject(k) ==
    /\ Len(dsets) < MaxObjects
    /\ LET r == apply(Deref(metas, dsets[k]))
           f == metas[dsets[k].meta_data].preprocess
       IN  /\ ret' = Call("apply", metas[dsets[k].meta_data].name, "", FALSE,
                          Some(Deref(metas, dsets[k])), r.outcome,
                          IF r.outcome = "ok" THEN Some(r.value) ELSE None)
           /\ dsets' = IF r.outcome = "ok" /\ f = Some("double_dset")
                       THEN Append(dsets, Dataset(dsets[k].meta_data, r.value.data,
                                                  r.value.target))
                       ELSE dsets
    /\ results' = <<[op |-> "apply", self |-> k]>>
    /\ UNCHANGED <<config, fs, nops, itors, pulled, buffer_size, metas>>

DoSaveObject == \E k \in 1..Len(dsets), v \in {"v1"} : SaveObject(k, v)
DoApplyObject == \E k \in 1..Len(dsets) : ApplyObject(k)

NextOwner == DoSaveObject \/ DoApplyObject

\* Datasets that may share a Metadata object, saved and applied in any order
SpecOwner == InitOwner /\ [][NextOwner]_vars

(***************************** claims *************************************)
\* the arguments of the constructor call ret describes
CtorArg == ret.arg[1]

C10_TargetLengthChecked ==
    ret.op = "Dataset" /\ ret.outcome = "ok" /\ ret.dataset[1].target # None
        => Len(ret.dataset[1].target[1]) = Len(ret.dataset[1].data)

(*************************** store claims *********************************)
\* the Dataset of the call ret describes, and where save put it
RetDataset == ret.dataset[1]
Blob(d) == [data |-> d.data, targets |-> d.target]
BlobNames == { DataFile(Dataset_hash(d)) : d \in StoreDatasets }
MetaNames == { MetaFile(n, v) : n \in Names, v \in Versions }
\* this step is a call of save that returned
SaveStep == ret'.op = "save" /\ nops' = nops + 1 /\ ret'.outcome = "ok"

\* C1: save(d, v) immediately followed by load(d's name, v) returns a dataset with
\* d's content hash and d's metadata name, splits and nb_examples, whatever the
\* store held before.
C1_RoundTrip ==
    [][(/\ ret.op = "save" /\ ret.outcome = "ok"
        /\ ret'.op = "load" /\ ret'.name = ret.name /\ ret'.version = ret.version)
       => /\ ret'.outcome = "ok"
          /\ ret'.dataset # None
          /\ Dataset_hash(ret'.dataset[1]) = Dataset_hash(RetDataset)
          /\ ret'.dataset[1].meta_data.name = RetDataset.meta_data.name
          /\ ret'.dataset[1].meta_data.splits = RetDataset.meta_data.splits
          /\ ret'.dataset[1].meta_data.nb_examples = RetDataset.meta_data.nb_examples
      ]_vars

\* C2: when a record <name>_<v>.meta exists already, after save(d, v) the record
\* holds the snapshot of d's metadata, d's current content hash included.
C2_SaveReplacesRecord ==
    [][(/\ SaveStep
        /\ dataset_exists(config, ret'.name)
        /\ MetaFile(ret'.name, ret'.version) \in listdir(fs, config[ret'.name]))
       => fs'[config'[ret'.name]][MetaFile(ret'.name, ret'.version)]
              = ret'.dataset[1].meta_data
      ]_vars

\* C3: once a data file <hash>.data exists, no later save changes the data and
\* targets it stores, whatever dataset is saved.
C3_BlobsWriteOnce ==
    [][SaveStep =>
        \A p \in DOMAIN fs : \A f \in listdir(fs, p) \cap BlobNames :
            /\ isdir(fs', p)
            /\ f \in listdir(fs', p)
            /\ fs'[p][f] = fs[p][f]
      ]_vars

\* C3 witness: save has returned and the data file of the saved dataset's hash
\* holds other data than the dataset saved
C3_Witness ==
    /\ ret.op = "save" /\ ret.outcome = "ok"
    /\ fs[config[ret.name]][DataFile(RetDataset.meta_data.hash)] # Blob(RetDataset)

\* C4: after one dataset was saved into a fresh directory, saving a dataset of
\* the same name and the same data and target under another version name leaves
\* exactly one data file and two records, and both records carry the same hash.
C4_Dedup ==
    [][(/\ SaveStep
        /\ dataset_exists(config, ret'.name)
        /\ \E v1 \in Versions \ {ret'.version} : \E f \in BlobNames :
              /\ listdir(fs, config[ret'.name]) = {MetaFile(ret'.name, v1), f}
              /\ fs[config[ret'.name]][f] = Blob(ret'.arg[1]))
       => LET dir == fs'[config'[ret'.name]] IN
          /\ Cardinality(DOMAIN dir \cap BlobNames) = 1
          /\ Cardinality(DOMAIN dir \cap MetaNames) = 2
          /\ Cardinality(DOMAIN dir) = 3
          /\ \A f \in DOMAIN dir \cap MetaNames, g \in DOMAIN dir \cap MetaNames :
                dir[f].hash = dir[g].hash
      ]_vars

\* C4 witness: one data file shared by two records that differ in their splits
C4_Witness ==
    /\ ret.op = "save" /\ ret.outcome = "ok"
    /\ LET dir == fs[config[ret.name]] IN
       /\ Cardinality(DOMAIN dir \cap BlobNames) = 1
       /\ DOMAIN dir \cap MetaNames = {MetaFile(ret.name, "v1"), MetaFile(ret.name, "v2")}
       /\ dir[MetaFile(ret.name, "v1")].splits # dir[MetaFile(ret.name, "v2")].splits
       /\ dir[MetaFile(ret.name, "v1")].hash = dir[MetaFile(ret.name, "v2")].hash

\* C5: right after save(d, v) returns, and for every dataset load returns (eager
\* or lazy), the metadata's hash is the content hash of the dataset's data and target.
C5_MetadataHashConsistent ==
    (ret.op \in {"save", "load"} /\ ret.outcome = "ok")
        => /\ ret.dataset # None
           /\ RetDataset.meta_data.hash = Dataset_hash(RetDataset)

\* C5 witness: a lazy load returned a dataset with a target
C5_Witness ==
    /\ ret.op = "load" /\ ret.lazy /\ ret.outcome = "ok"
    /\ RetDataset.target # None
    /\ RetDataset.meta_data.hash = Dataset_hash(RetDataset)

\* C6: saving a dataset whose content differs from every stored one under a new
\* version name of an indexed name adds a new data file and a new record, and load
\* of every (name, version) saved before returns what it returned before.
C6_VersionsIsolated ==
    [][(/\ SaveStep
        /\ dataset_exists(config, ret'.name)
        /\ MetaFile(ret'.name, ret'.version) \notin listdir(fs, config[ret'.name])
        /\ \A f \in listdir(fs, config[ret'.name]) \cap BlobNames :
              fs[config[ret'.name]][f] # Blob(ret'.arg[1]))
       => LET p == config[ret'.name] IN
          /\ listdir(fs', p) \ listdir(fs, p)
                = {DataFile(ret'.dataset[1].meta_data.hash),
                   MetaFile(ret'.name, ret'.version)}
          /\ \A n \in Names, v \in Versions :
                load_outcome(config, fs, n, v) # "LookupError"
                    => /\ load_outcome(config', fs', n, v) = load_outcome(config, fs, n, v)
                       /\ load(config', fs', n, v) = load(config, fs, n, v)
      ]_vars

C8_AddRemove ==
    /\ ret.op = "add_dataset" =>
          /\ dataset_exists(config, ret.name)
          /\ isdir(fs, get_dataset_path(config, ret.name))
    /\ ret.op = "remove" =>
          /\ ~dataset_exists(config, ret.name)
          /\ ~isdir(fs, join(_load_path, ret.name))
          /\ \A v \in Versions :
                load_outcome(config, fs, ret.name, v) = "LookupError"

\* C8 witness: the caller still holds a dataset it saved or loaded under the name
\* that remove has just taken away
C8_Witness ==
    /\ ret.op = "remove"
    /\ ret.dataset # None
    /\ RetDataset.meta_data.name = ret.name
    /\ RetDataset.meta_data.hash # ""
    /\ ~dataset_exists(config, ret.name)

(*************************** hashing claims *******************************)
\* the two Datasets hold the same rows and the same target (or both none)
SameContent == dsets[1].data = dsets[2].data /\ dsets[1].target = dsets[2].target

\* C11: the content hash depends only on the physical content: two datasets with
\* identical data rows and identical target (or both without one) have equal
\* hashes, whatever their metadata name, splits form or recorded hash.
C11_HashOfContentOnly ==
    Len(results) = 2 /\ SameContent => results[1] = results[2]

\* C11 witness: same content, different name, splits and recorded hash, equal hashes
C11_Witness ==
    /\ Len(results) = 2
    /\ SameContent
    /\ dsets[1].meta_data.name # dsets[2].meta_data.name
    /\ dsets[1].meta_data.splits # dsets[2].meta_data.splits
    /\ dsets[1].meta_data.hash # dsets[2].meta_data.hash
    /\ results[1] = results[2]

\* C12: with a digest that never collides, two datasets that differ in their data
\* rows or in their target (absent against present, or other rows) have
\* different hashes, also when the same values are divided differently into rows
\* or between data and target.
C12_HashSeparatesContent ==
    Len(results) = 2 /\ ~SameContent => results[1] # results[2]

(************************** iteration claims ******************************)
\* the Dataset iterated, its generators by kind, and the tuple __iter__ owes for row p
TheDataset == dsets[1]
WholeItors == { k \in 1..Len(itors) : itors[k].kind = "__iter__" }
SplitItors == { k \in 1..Len(itors) : itors[k].kind = "_split_iterators" }
Example(d, p) == IF d.target # None THEN <<d.data[p], d.target[1][p]>> ELSE <<d.data[p]>>

\* C13: iterating a Dataset yields exactly len(dataset) tuples, (example, target)
\* or (example,), for rows 0 .. len-1 in order, each once, and then the iteration
\* ends.
C13_IterationEnds ==
    \A k \in WholeItors : \A p \in 1..Len(pulled[k]) :
        IF p <= Dataset_len(TheDataset)
        THEN pulled[k][p] = [outcome |-> "yield", value |-> Example(TheDataset, p)]
        ELSE pulled[k][p].outcome = "StopIteration"

\* the call of get_splits_iterators made, and the k-th generator it returned
SplitsCall == results[1]
SplitItor(k) == SplitsCall.first + k - 1

\* e(k): the end offset of split k of the declared splits, read as counts when they
\* sum to len(dataset) and as end offsets otherwise; e(0) = 0
EndOffset(d, k) ==
    IF k = 0 THEN 0
    ELSE IF Sum(d.meta_data.splits) = Dataset_len(d)
         THEN Sum(SubSeq(d.meta_data.splits, 1, k))
         ELSE d.meta_data.splits[k]

RECURSIVE RowsPulled(_)
\* the data rows of the minibatches a generator has yielded, in order
RowsPulled(pulls) ==
    IF pulls = <<>> THEN <<>>
    ELSE RowsPulled(SubSeq(pulls, 1, Len(pulls) - 1))
           \o (IF Last(pulls).outcome = "yield" THEN Last(pulls).value[1] ELSE <<>>)

\* got is a run through rows, over and over, from its first row
Cycles(got, rows) ==
    \A q \in 1..Len(got) : rows # <<>> /\ got[q] = rows[((q - 1) % Len(rows)) + 1]

Batch(k, p) == pulled[k][p].value[1]

\* C15: each split iterator cycles forever: a pull never raises and never ends, and
\* the pull after the last minibatch of [start, end) yields the minibatch that
\* starts at row start again.
C15_SplitIteratorCycles ==
    \A k \in SplitItors : \A p \in 1..Len(pulled[k]) :
        /\ pulled[k][p].outcome = "yield"
        /\ Batch(k, p) # <<>>
        /\ p > 1 /\ Last(Batch(k, p - 1)) = TheDataset.data[itors[k].end]
              => Head(Batch(k, p)) = TheDataset.data[itors[k].start + 1]

\* ceil((end - start) / minibatch_size) of a generator's split
PassLength(f) == (f.end - f.start + f.minibatch_size - 1) \div f.minibatch_size

\* C16: for every split [start, end), every minibatch_size >= 1 and every buffer
\* size, the first ceil((end - start) / minibatch_size) yields of its iterator
\* cover each row of [start, end) exactly once, in order, and the next yield
\* starts again at row start.
C16_SinglePassLength ==
    \A k \in SplitItors :
        LET n == PassLength(itors[k])
        IN  /\ Len(pulled[k]) >= n /\ n >= 0 =>
                  /\ \A p \in 1..n : pulled[k][p].outcome = "yield"
                  /\ RowsPulled(SubSeq(pulled[k], 1, n))
                        = SubSeq(TheDataset.data, itors[k].start + 1, itors[k].end)
            /\ Len(pulled[k]) > n /\ n >= 0 =>
                  /\ pulled[k][n + 1].outcome = "yield"
                  /\ Batch(k, n + 1) # <<>>
                  /\ Head(Batch(k, n + 1)) = TheDataset.data[itors[k].start + 1]

\* C17: with minibatch_size = 1 each split iterator is finite and yields exactly
\* as many items as its split has rows, the rows of the split in the order in
\* which iterating the whole dataset gives them.
C17_SplitIteratorsFinite ==
    results # <<>> /\ SplitsCall.minibatch_size = 1 =>
        \A k \in SplitItors : \A p \in 1..Len(pulled[k]) :
            IF p <= itors[k].end - itors[k].start
            THEN /\ pulled[k][p].outcome = "yield"
                 /\ Batch(k, p) = <<TheDataset.data[itors[k].start + p]>>
            ELSE pulled[k][p].outcome = "StopIteration"

(**************************** apply claims ********************************)
\* the Dataset apply was called on, as it was before the call
Receiver == ret.arg[1]

\* C18: apply() returns exactly the Dataset meta_data.preprocess(self) produced,
\* fails if that result is not a Dataset, and leaves the data, target and metadata
\* of the Dataset it is called on unchanged; with the doubling transform the
\* result's data is twice the original data.
C18_ApplyReturnsPreprocessed ==
    ret.op = "apply" =>
        LET f == Receiver.meta_data.preprocess
        IN  /\ dsets[1] = Receiver
            /\ ret.outcome = "ok" =>
                  /\ results[1].isDataset
                  /\ f = Some("default_preprocess") => ret.dataset = Some(Receiver)
                  /\ f = Some("double_dset") =>
                        /\ ret.dataset[1].meta_data = Receiver.meta_data
                        /\ Len(ret.dataset[1].data) = Len(Receiver.data)
                        /\ \A r \in 1..Len(Receiver.data) :
                              /\ Len(ret.dataset[1].data[r]) = Len(Receiver.data[r])
                              /\ \A c \in 1..Len(Receiver.data[r]) :
                                    ret.dataset[1].data[r][c] = 2 * Receiver.data[r][c]
            /\ f = Some("get_data") => ret.outcome = "AssertionError" /\ ret.dataset = None
            /\ f = Some("default_preprocess") => ret.outcome = "ok"
            /\ f = Some("double_dset") /\ Receiver.target # None => ret.outcome = "ok"

\* C18 witness: apply with the doubling transform returned a Dataset of other
\* rows and the Dataset it was called on still holds its rows
C18_Witness ==
    /\ ret.op = "apply"
    /\ ret.outcome = "ok"
    /\ Receiver.meta_data.preprocess = Some("double_dset")
    /\ ret.dataset[1].data # Receiver.data
    /\ dsets[1].data = Receiver.data

\* C19: Dataset.get_splits() returns meta_data.splits when it is a tuple, and
\* fails with a not-implemented condition for any other representation.
C19_GetSplitsReturnsTuple ==
    ret.op = "get_splits" =>
        IF DOMAIN Receiver.meta_data.splits = 1..Len(Receiver.meta_data.splits)
        THEN ret.outcome = "ok" /\ ret.dataset = Some(Receiver.meta_data.splits)
        ELSE ret.outcome = "NotImplementedError"

\* C20: for every Dataset that construction accepts, the normalized split offsets
\* get_splits_iterators uses are strictly increasing and end at len(dataset), so
\* the row ranges of the splits are non-empty, pairwise disjoint and together
\* cover [0, len) exactly.
C20_SplitsPartitionRows ==
    results # <<>> =>
        /\ SplitsCall.outcome = "ok"
        /\ SplitsCall.count >= 1
        /\ itors[SplitItor(1)].start = 0
        /\ itors[SplitItor(SplitsCall.count)].end = Dataset_len(TheDataset)
        /\ \A k \in 1..SplitsCall.count :
              /\ itors[SplitItor(k)].start < itors[SplitItor(k)].end
              /\ k > 1 => itors[SplitItor(k)].start = itors[SplitItor(k - 1)].end

(************************** buffering claims ******************************)
\* generator k as it was made, before its first next()
AsCreated(k) ==
    IF itors[k].kind = "__iter__" THEN Dataset_iter(TheDataset)
    ELSE _split_iterators(itors[k].start, itors[k].end, itors[k].minibatch_size)

\* next() on generator frame f of Dataset d
NextOf(d, f, BUFFER) ==
    IF f.kind = "__iter__" THEN Dataset_iter_next(d, f, BUFFER)
    ELSE _split_iterators_next(d, f, BUFFER)

RECURSIVE Alone(_, _, _, _)
\* what n calls of next() return from frame f when nothing else is done in between
Alone(d, f, BUFFER, n) ==
    IF n = 0 \/ f.state = "running" THEN <<>>
    ELSE LET r == NextOf(d, f, BUFFER)
         IN  <<[outcome |-> r.outcome, value |-> r.value]>>
                \o Alone(d, r.frame, BUFFER, n - 1)

\* C21: buffering is invisible: for a fixed dataset, the items a consumer sees from
\* iterating the whole dataset, and the minibatches it sees from a split iterator
\* for a fixed split and minibatch_size, are the same for every buffer size >= 1.
C21_BufferingInvisible ==
    \A k \in 1..Len(itors) : \A b \in BufferSizes :
        pulled[k] = Alone(TheDataset, AsCreated(k), b, Len(pulled[k]))

\* C22: split iterators of one dataset are independent: under any interleaving of
\* pulls on different split iterators each one yields the sequence it yields when
\* consumed alone, and no pull changes the dataset's data, target or metadata.
C22_SplitIteratorsIndependent ==
    [][ (\E k \in 1..Len(pulled) : pulled'[k] # pulled[k]) =>
            /\ dsets' = dsets
            /\ \A j \in SplitItors :
                  pulled'[j] = Alone(TheDataset, AsCreated(j), buffer_size,
                                     Len(pulled'[j])) ]_vars

\* C22 witness: two split iterators of one Dataset have both yielded, the first one
\* twice and the second one three times
C22_Witness ==
    /\ Cardinality(SplitItors) = 2
    /\ \A k \in SplitItors : \A p \in 1..Len(pulled[k]) : pulled[k][p].outcome = "yield"
    /\ \E j, k \in SplitItors : j < k /\ Len(pulled[j]) = 2 /\ Len(pulled[k]) = 3

(************************** ownership claims ******************************)
\* C23: a Dataset exclusively owns its Metadata: an operation on one Dataset (save
\* assigning the hash field, or apply) never changes the metadata seen through a
\* different Dataset object, also one constructed from the same Metadata value
\* or returned by apply.
C23_MetadataExclusivelyOwned ==
    [][ \A j \in 1..Len(dsets) :
            j # results'[1].self =>
                metas'[dsets'[j].meta_data] = metas[dsets[j].meta_data] ]_vars

(************************** integrity claims ******************************)
\* C24: after any sequence of save and remove calls, every .meta record of a
\* dataset directory names, by its hash, a .data blob that exists in the same
\* directory and whose data has as many rows as the record's nb_examples, so
\* load of an existing (name, version) record does not fail on the blob.
C24_RecordsNameTheirBlob ==
    \A path \in DOMAIN fs : \A f \in DOMAIN fs[path] \cap MetaNames :
        /\ DataFile(fs[path][f].hash) \in DOMAIN fs[path]
        /\ Len(fs[path][DataFile(fs[path][f].hash)].data) = fs[path][f].nb_examples

\* this step is a call of remove
RemoveStep == ret'.op = "remove" /\ nops' = nops + 1

C26_NormalizationNeverFails ==
    results # <<>> =>
        /\ SplitsCall.outcome = "ok"
        /\ SplitsCall.count >= 1
        /\ itors[SplitItor(SplitsCall.count)].end = Dataset_len(TheDataset)

\* C26 witness: splits given as the counts (2, 1) of 3 rows, whose last element is
\* not 3, were normalized and the last generator ends at row 3
C26_Witness ==
    /\ results # <<>>
    /\ TheDataset.meta_data.splits = <<2, 1>>
    /\ Dataset_len(TheDataset) = 3
    /\ SplitsCall.outcome = "ok"
    /\ itors[SplitItor(2)].start = 2
    /\ itors[SplitItor(2)].end = 3

====
